---------------------------- MODULE Spec2Model ----------------------------
(***************************************************************************)
(* A model of the uxnrs virtual machine core: the byte Stack of            *)
(* src/uxn/stack.rs and the Uxn CPU (memory, program counter, working and  *)
(* return stack, load_rom, eval_vector) of src/uxn.rs.                     *)
(*                                                                         *)
(* Machine integers keep their width.  A u16 or usize operation whose      *)
(* exact result leaves the type panics when the build checks overflow      *)
(* (the debug and test profiles) and wraps when it does not (the release   *)
(* profile); the variable overflow_checks fixes the build for a behaviour. *)
(***************************************************************************)
EXTENDS Integers, Sequences, FiniteSets, TLC

VARIABLES
    overflow_checks, \* the build: TRUE when integer overflow panics
    mem,             \* Uxn.mem, kept sparsely: the non-zero bytes by address
    pc,              \* Uxn.pc
    wst,             \* Uxn.wst, a Stack
    rst,             \* Uxn.rst, a Stack
    phase,           \* where the host is: "new", "loaded", "running", "returned", "panicked"
    fault,           \* the panic that ended the program, "none" otherwise
    rom,             \* history: the bytes last handed to load_rom
    steps,           \* history: instructions fetched so far
    loads,           \* history: calls of load_rom so far
    last,            \* history: the last call or instruction and the state before it
    stk,             \* a Stack driven through its own interface (test_stack)
    call,            \* history: the last call on stk, its argument, result and the Stack before it
    kept,            \* history: stk.data when keep mode was last enabled
    klog,            \* history: bytes pushed and bytes popped since keep mode was last enabled
    trace            \* history: the calls on stk from the first on, when they are recorded

vars == <<overflow_checks, mem, pc, wst, rst, phase, fault, rom, steps, loads, last,
          stk, call, kept, klog, trace>>

cpuVars == <<mem, pc, wst, rst, phase, fault, rom, steps, loads, last>>
stkVars == <<stk, call, kept, klog, trace>>

-----------------------------------------------------------------------------
(* Machine integers *)

U8 == 256
U16 == 65536
MemSize == 65536

NoValue == -1

Hi(short) == (short \div 256) % 256
Lo(short) == short % 256
FromBe(high, low) == high * 256 + low
SignExt(byte) == IF byte >= 128 THEN byte - 256 ELSE byte

RECURSIVE BitOp(_, _, _, _)
BitOp(op, a, b, n) ==
    IF n = 0 THEN 0
    ELSE LET x == a % 2
             y == b % 2
             bit == CASE op = "and" -> IF x = 1 /\ y = 1 THEN 1 ELSE 0
                      [] op = "or"  -> IF x = 1 \/ y = 1 THEN 1 ELSE 0
                      [] op = "xor" -> IF x # y THEN 1 ELSE 0
         IN  bit + 2 * BitOp(op, a \div 2, b \div 2, n - 1)

Bit(instr, mask) == (instr \div mask) % 2 = 1

\* let x = ...; the rest of the block reads x
Bind(x, F(_)) == F(x)

-----------------------------------------------------------------------------
(* Stack: src/uxn/stack.rs *)

StackNew == [data |-> <<>>, keep_mode |-> FALSE, pop_offset |-> 0]

set_keep_mode(s, mode) == [s EXCEPT !.pop_offset = 0, !.keep_mode = mode]

\* push_byte without self.pop_offset += 1
push_byte_no_offset(s, byte) == [s EXCEPT !.data = Append(@, byte)]

push_byte(s, byte) ==
    [s EXCEPT !.data = Append(@, byte), !.pop_offset = @ + 1]

\* pop_byte that ignores keep_mode and always removes the top byte
pop_byte_destructive(s) ==
    IF Len(s.data) = 0
    THEN [s |-> s, value |-> NoValue, fault |-> "Stack underflow"]
    ELSE [s |-> [s EXCEPT !.data = SubSeq(@, 1, Len(@) - 1)],
          value |-> s.data[Len(s.data)],
          fault |-> "none"]

\* pop_byte that answers 0 instead of panicking when the byte does not exist
pop_byte_zero(s) ==
    IF Len(s.data) = 0 \/ (s.keep_mode /\ s.pop_offset >= Len(s.data))
    THEN [s |-> s, value |-> 0, fault |-> "none"]
    ELSE IF s.keep_mode
    THEN [s |-> [s EXCEPT !.pop_offset = @ + 1],
          value |-> s.data[Len(s.data) - s.pop_offset],
          fault |-> "none"]
    ELSE [s |-> [s EXCEPT !.data = SubSeq(@, 1, Len(@) - 1)],
          value |-> s.data[Len(s.data)],
          fault |-> "none"]

\* The result of a pop: the Stack afterwards, the value returned (NoValue when
\* the call panics) and the panic.
pop_byte(s) ==
    IF Len(s.data) = 0
    THEN [s |-> s, value |-> NoValue, fault |-> "Stack underflow"]
    ELSE IF s.keep_mode
    THEN IF s.pop_offset >= Len(s.data)
         \* data.len() - pop_offset - 1 leaves usize: the subtraction panics when
         \* checked and otherwise wraps to an index far beyond the Vec
         THEN [s |-> s, value |-> NoValue,
               fault |-> IF overflow_checks THEN "attempt to subtract with overflow"
                                            ELSE "data index out of bounds"]
         ELSE [s |-> [s EXCEPT !.pop_offset = @ + 1],
               value |-> s.data[Len(s.data) - s.pop_offset],
               fault |-> "none"]
    ELSE [s |-> [s EXCEPT !.data = SubSeq(@, 1, Len(@) - 1)],
          value |-> s.data[Len(s.data)],
          fault |-> "none"]

\* push_short that pushes the low byte first
push_short_low_first(s, short) == push_byte(push_byte(s, Lo(short)), Hi(short))

push_short(s, short) == push_byte(push_byte(s, Hi(short)), Lo(short))

pop_short(s) ==
    Bind(pop_byte(s), LAMBDA lower :
    Bind(pop_byte(lower.s), LAMBDA upper :
        IF lower.fault # "none" THEN lower
        ELSE IF upper.fault # "none" THEN upper
        ELSE [s |-> upper.s,
              value |-> ((upper.value * 256) % U16) + lower.value,
              fault |-> "none"]))

-----------------------------------------------------------------------------
(* Uxn: src/uxn.rs.  The memory array [u8; 0x10000] is a function from the  *)
(* addresses that hold a non-zero byte; every other address reads 0.        *)

ROM_START == 256

MemRead(m, addr) == IF addr \in DOMAIN m THEN m[addr] ELSE 0

MemWrite(m, addr, byte) ==
    IF byte = 0
    THEN [a \in DOMAIN m \ {addr} |-> m[a]]
    ELSE [a \in DOMAIN m \cup {addr} |-> IF a = addr THEN byte ELSE m[a]]

\* copy_from_slice into a window that starts one byte late
RECURSIVE CopyShifted(_, _, _, _)
CopyShifted(m, start, bytes, i) ==
    IF i > Len(bytes) THEN m
    ELSE CopyShifted(MemWrite(m, start + i, bytes[i]), start, bytes, i + 1)

RECURSIVE CopyFromSlice(_, _, _, _)
CopyFromSlice(m, start, bytes, i) ==
    IF i > Len(bytes) THEN m
    ELSE CopyFromSlice(MemWrite(m, start + i - 1, bytes[i]), start, bytes, i + 1)

\* The state one instruction works on: the fields of Uxn, the panic raised so far,
\* the value of the last expression evaluated and whether eval_vector has returned.
\* Once fault is set every later operation of the instruction is skipped.
Ctx(m, p, w, r) ==
    [mem |-> m, pc |-> p, wst |-> w, rst |-> r,
     fault |-> "none", value |-> NoValue, ret |-> FALSE]

Ok(c) == c.fault = "none" /\ ~c.ret

\* u16 arithmetic whose exact result is x
Arith16(c, x) ==
    IF ~Ok(c) THEN c
    ELSE IF x >= 0 /\ x < U16 THEN [c EXCEPT !.value = x]
    ELSE IF overflow_checks
         THEN [c EXCEPT !.fault = "arithmetic overflow", !.value = NoValue]
         ELSE [c EXCEPT !.value = x % U16]

\* self.pc += n
AddPc(c, n) ==
    Bind(Arith16(c, c.pc + n), LAMBDA r :
        IF Ok(r) THEN [r EXCEPT !.pc = r.value] ELSE r)

\* self.mem[index]
Index(c, index) ==
    IF ~Ok(c) THEN c
    ELSE IF index >= MemSize
         THEN [c EXCEPT !.fault = "mem index out of bounds", !.value = NoValue]
         ELSE [c EXCEPT !.value = MemRead(c.mem, index)]

\* self.mem[index] = byte
IndexSet(c, index, byte) ==
    IF ~Ok(c) THEN c
    ELSE IF index >= MemSize
         THEN [c EXCEPT !.fault = "mem index out of bounds"]
         ELSE [c EXCEPT !.mem = MemWrite(@, index, byte)]

\* u16::from_be_bytes([self.mem[addr], self.mem[addr + 1]])
ReadBe(c, addr) ==
    Bind(Index(c, addr), LAMBDA high :
    Bind(Index(high, addr + 1), LAMBDA low :
        IF Ok(low) THEN [low EXCEPT !.value = FromBe(high.value, low.value)] ELSE low))

\* The macros of eval_vector
Pop(c, short_mode) ==
    IF ~Ok(c) THEN c
    ELSE Bind(IF short_mode THEN pop_short(c.wst) ELSE pop_byte(c.wst), LAMBDA r :
             [c EXCEPT !.wst = r.s, !.value = r.value, !.fault = r.fault])

Push(c, short_mode, value) ==
    IF ~Ok(c) THEN c
    ELSE [c EXCEPT !.wst = IF short_mode THEN push_short(@, value)
                                         ELSE push_byte(@, value % U8)]

PushRst(c, short_mode, value) ==
    IF ~Ok(c) THEN c
    ELSE [c EXCEPT !.rst = IF short_mode THEN push_short(@, value)
                                         ELSE push_byte(@, value % U8)]

Jump(c, short_mode, addr) ==
    IF ~Ok(c) THEN c
    ELSE IF short_mode THEN [c EXCEPT !.pc = addr] ELSE AddPc(c, addr)

Peek(c, short_mode, addr) ==
    IF short_mode THEN ReadBe(c, addr) ELSE Index(c, addr)

Poke(c, short_mode, addr, value) ==
    IF short_mode
    THEN IndexSet(IndexSet(c, addr, Hi(value)), addr + 1, Lo(value))
    ELSE IndexSet(c, addr, value % U8)

Panic(c, message) == IF ~Ok(c) THEN c ELSE [c EXCEPT !.fault = message]

-----------------------------------------------------------------------------
(* The instructions of eval_vector.  c is the state after the fetch, the    *)
(* return-mode swap and the keep-mode switch; sm is short_mode.             *)

\* instr & 0x1f == 0: BRK, JCI, JMI, JSI and the LIT family, told apart by instr >> 5
JCI(c, sm) ==
    Bind(Pop(c, sm), LAMBDA cond :
    Bind(ReadBe(cond, cond.pc), LAMBDA imm :
        AddPc(IF cond.value # 0 THEN AddPc(imm, imm.value) ELSE cond, 2)))

JMI(c) ==
    Bind(ReadBe(c, c.pc), LAMBDA addr :
    Bind(Arith16(addr, addr.value + 2), LAMBDA dist :
        AddPc(dist, dist.value)))

JSI(c) ==
    Bind(Arith16(c, c.pc + 2), LAMBDA next :
        JMI(PushRst(next, TRUE, next.value)))

LIT(c, sm) ==
    Bind(Peek(c, sm, c.pc), LAMBDA value :
        Push(AddPc(value, IF sm THEN 2 ELSE 1), sm, value.value))

BRK(c, instr, sm) ==
    CASE instr \div 32 = 0 -> [c EXCEPT !.ret = TRUE]
      [] instr \div 32 = 1 -> JCI(c, sm)
      [] instr \div 32 = 2 -> JMI(c)
      [] instr \div 32 = 3 -> JSI(c)
      [] OTHER -> LIT(c, sm)

INC(c, sm) ==
    Bind(Pop(c, sm), LAMBDA a :
    Bind(Arith16(a, a.value + 1), LAMBDA r :
        Push(r, sm, r.value)))

POP(c, sm) == Pop(c, sm)

NIP(c, sm) ==
    Bind(Pop(c, sm), LAMBDA a :
    Bind(Pop(a, sm), LAMBDA b :
        Push(b, sm, a.value)))

SWP(c, sm) ==
    Bind(Pop(c, sm), LAMBDA a :
    Bind(Pop(a, sm), LAMBDA b :
        Push(Push(b, sm, a.value), sm, b.value)))

ROT(c, sm) ==
    Bind(Pop(c, sm), LAMBDA a :
    Bind(Pop(a, sm), LAMBDA b :
    Bind(Pop(b, sm), LAMBDA cc :
        Push(Push(Push(cc, sm, b.value), sm, a.value), sm, cc.value))))

DUP(c, sm) ==
    Bind(Pop(c, sm), LAMBDA a :
        Push(Push(a, sm, a.value), sm, a.value))

OVR(c, sm) ==
    Bind(Pop(c, sm), LAMBDA a :
    Bind(Pop(a, sm), LAMBDA b :
        Push(Push(Push(b, sm, b.value), sm, a.value), sm, b.value)))

\* EQU, NEQ, GTH, LTH: push!(wst, (a OP b) as u16)
Compare(c, sm, op) ==
    Bind(Pop(c, sm), LAMBDA b :
    Bind(Pop(b, sm), LAMBDA a :
        Push(a, sm, IF CASE op = "EQU" -> a.value = b.value
                         [] op = "NEQ" -> a.value # b.value
                         [] op = "GTH" -> a.value > b.value
                         [] op = "LTH" -> a.value < b.value
                    THEN 1 ELSE 0)))

JMP(c, sm) ==
    Bind(Pop(c, sm), LAMBDA addr :
        Jump(addr, sm, addr.value))

JCN(c, sm) ==
    Bind(Pop(c, sm), LAMBDA addr :
    Bind(Pop(addr, FALSE), LAMBDA cond :
        IF cond.value # 0 THEN Jump(cond, sm, addr.value) ELSE cond))

JSR(c, sm) ==
    Bind(Pop(c, sm), LAMBDA addr :
        Jump(PushRst(addr, TRUE, addr.pc), sm, addr.value))

STH(c, sm) ==
    Bind(Pop(c, sm), LAMBDA a :
        PushRst(a, sm, a.value))

LDZ(c, sm) ==
    Bind(Pop(c, FALSE), LAMBDA addr :
    Bind(Peek(addr, sm, addr.value), LAMBDA value :
        Push(value, sm, value.value)))

STZ(c, sm) ==
    Bind(Pop(c, FALSE), LAMBDA addr :
    Bind(Pop(addr, sm), LAMBDA value :
        Poke(value, sm, addr.value, value.value)))

\* self.pc.wrapping_add_signed(offset as i16)
RelAddr(p, offset) == (p + SignExt(offset)) % U16

LDR(c, sm) ==
    Bind(Pop(c, FALSE), LAMBDA offset :
    Bind(Peek(offset, sm, RelAddr(offset.pc, offset.value)), LAMBDA value :
        Push(value, sm, value.value)))

STR(c, sm) ==
    Bind(Pop(c, FALSE), LAMBDA offset :
    Bind(Pop(offset, sm), LAMBDA value :
        Poke(value, sm, RelAddr(offset.pc, offset.value), value.value)))

LDA(c, sm) ==
    Bind(Pop(c, TRUE), LAMBDA addr :
    Bind(Peek(addr, sm, addr.value), LAMBDA value :
        Push(value, sm, value.value)))

STA(c, sm) ==
    Bind(Pop(c, TRUE), LAMBDA addr :
    Bind(Pop(addr, sm), LAMBDA value :
        Poke(value, sm, addr.value, value.value)))

\* DEI and DEO are todo!()
DEI(c) == Panic(c, "not yet implemented")
DEO(c) == Panic(c, "not yet implemented")

\* u16 multiplication; the product is formed in two halves to stay within the
\* checker's integers, giving U16 (out of range) for every product of U16 or more
Product(a, b) ==
    IF a # 0 /\ b > (U16 - 1) \div a
    THEN U16 + ((a * Lo(b) + ((a * Hi(b)) % U8) * U8) % U16)
    ELSE a * b

\* ADD, SUB, MUL: push!(wst, a OP b) on u16 operands
Arith(c, sm, op) ==
    Bind(Pop(c, sm), LAMBDA b :
    Bind(Pop(b, sm), LAMBDA a :
    Bind(Arith16(a, CASE op = "ADD" -> a.value + b.value
                      [] op = "SUB" -> a.value - b.value
                      [] op = "MUL" -> Product(a.value, b.value)), LAMBDA r :
        Push(r, sm, r.value))))

DIV(c, sm) ==
    Bind(Pop(c, sm), LAMBDA b :
    Bind(Pop(b, sm), LAMBDA a :
        IF ~Ok(a) THEN a
        ELSE IF b.value = 0 THEN Panic(a, "attempt to divide by zero")
        ELSE Push(a, sm, a.value \div b.value)))

\* AND, ORA, EOR
Bitwise(c, sm, op) ==
    Bind(Pop(c, sm), LAMBDA b :
    Bind(Pop(b, sm), LAMBDA a :
        IF ~Ok(a) THEN a ELSE Push(a, sm, BitOp(op, a.value, b.value, 16))))

\* x >> n and x << n on a type of the given number of bits: a shift by the
\* type's width or more panics when checked and is otherwise taken modulo the width
Shr(c, x, n, bits) ==
    IF ~Ok(c) THEN c
    ELSE IF n >= bits /\ overflow_checks
         THEN [c EXCEPT !.fault = "shift overflow", !.value = NoValue]
         ELSE [c EXCEPT !.value = x \div (2 ^ (n % bits))]

Shl(c, x, n, bits) ==
    IF ~Ok(c) THEN c
    ELSE IF n >= bits /\ overflow_checks
         THEN [c EXCEPT !.fault = "shift overflow", !.value = NoValue]
         ELSE [c EXCEPT !.value = (x * (2 ^ (n % bits))) % (2 ^ bits)]

SFT(c, sm) ==
    Bind(Pop(c, sm), LAMBDA a :
    Bind(Pop(a, FALSE), LAMBDA shift :
    Bind(Shr(shift, IF sm THEN a.value ELSE a.value % U8,
             shift.value % 16, IF sm THEN 16 ELSE 8), LAMBDA shr :
    Bind(Shl(shr, shr.value, shift.value \div 16, IF sm THEN 16 ELSE 8), LAMBDA shl :
        Push(shl, sm, shl.value)))))

\* match instr & 0b00011111
Dispatch(c, instr) ==
    LET sm == Bit(instr, 32)
        op == instr % 32
    IN  CASE op = 0 -> BRK(c, instr, sm)
          [] op = 1 -> INC(c, sm)
          [] op = 2 -> POP(c, sm)
          [] op = 3 -> NIP(c, sm)
          [] op = 4 -> SWP(c, sm)
          [] op = 5 -> ROT(c, sm)
          [] op = 6 -> DUP(c, sm)
          [] op = 7 -> OVR(c, sm)
          [] op = 8 -> Compare(c, sm, "EQU")
          [] op = 9 -> Compare(c, sm, "NEQ")
          [] op = 10 -> Compare(c, sm, "GTH")
          [] op = 11 -> Compare(c, sm, "LTH")
          [] op = 12 -> JMP(c, sm)
          [] op = 13 -> JCN(c, sm)
          [] op = 14 -> JSR(c, sm)
          [] op = 15 -> STH(c, sm)
          [] op = 16 -> LDZ(c, sm)
          [] op = 17 -> STZ(c, sm)
          [] op = 18 -> LDR(c, sm)
          [] op = 19 -> STR(c, sm)
          [] op = 20 -> LDA(c, sm)
          [] op = 21 -> STA(c, sm)
          [] op = 22 -> DEI(c)
          [] op = 23 -> DEO(c)
          [] op = 24 -> Arith(c, sm, "ADD")
          [] op = 25 -> Arith(c, sm, "SUB")
          [] op = 26 -> Arith(c, sm, "MUL")
          [] op = 27 -> DIV(c, sm)
          [] op = 28 -> Bitwise(c, sm, "and")
          [] op = 29 -> Bitwise(c, sm, "or")
          [] op = 30 -> Bitwise(c, sm, "xor")
          [] op = 31 -> SFT(c, sm)

\* std::mem::swap(wst, rst) exchanges the two Stack values in place
SwapStacks(c) == [c EXCEPT !.wst = c.rst, !.rst = c.wst]

ReturnMode(c, instr) == IF Ok(c) /\ Bit(instr, 64) THEN SwapStacks(c) ELSE c

KeepMode(c, instr) ==
    IF Ok(c) /\ Bit(instr, 128) THEN [c EXCEPT !.wst = set_keep_mode(@, TRUE)] ELSE c

\* an iteration that ends without wst.set_keep_mode(false)
EndInstrKeep(c) == c

\* wst.set_keep_mode(false) closes every iteration that neither returned nor panicked
EndInstr(c) == IF Ok(c) THEN [c EXCEPT !.wst = set_keep_mode(@, FALSE)] ELSE c

\* One iteration of the loop of eval_vector on state c: fetch, self.pc += 1, swap,
\* keep mode, the instruction, keep mode off.
ExecInstr(c, instr) ==
    EndInstr(Dispatch(KeepMode(ReturnMode(AddPc(c, 1), instr), instr), instr))

Exec(c) == ExecInstr(c, MemRead(c.mem, c.pc))

-----------------------------------------------------------------------------
(* The host: Uxn::new(), load_rom(rom), eval_vector(addr), as the tests of  *)
(* src/uxn.rs drive the CPU.  eval_vector is followed one loop iteration    *)
(* at a time.                                                               *)

MaxSteps == 300

Snapshot == [mem |-> mem, pc |-> pc, wst |-> wst, rst |-> rst]

\* the step before the last one: what it was and the state it started from
Prior == [op |-> last.op, instr |-> last.instr, pre |-> last.pre]

UxnNew ==
    /\ mem = <<>>
    /\ pc = ROM_START
    /\ wst = StackNew
    /\ rst = StackNew
    /\ phase = "new"
    /\ fault = "none"
    /\ rom = <<>>
    /\ steps = 0
    /\ loads = 0
    /\ last = [op |-> "new", instr |-> NoValue, arg |-> NoValue,
               pre |-> [mem |-> <<>>, pc |-> ROM_START, wst |-> StackNew, rst |-> StackNew],
               prior |-> [op |-> "new", instr |-> NoValue,
                          pre |-> [mem |-> <<>>, pc |-> ROM_START,
                                   wst |-> StackNew, rst |-> StackNew]]]

\* self.mem[start..end].copy_from_slice(rom); self.pc = 0x0100
load_rom(bytes) ==
    /\ phase \in {"new", "loaded", "returned"}
    /\ IF ROM_START + Len(bytes) > MemSize
       THEN /\ phase' = "panicked"
            /\ fault' = "range end index out of range"
            /\ UNCHANGED <<mem, pc>>
       ELSE /\ mem' = CopyFromSlice(mem, ROM_START, bytes, 1)
            /\ pc' = ROM_START
            /\ phase' = "loaded"
            /\ fault' = "none"
    /\ rom' = bytes
    /\ loads' = loads + 1
    /\ last' = [op |-> "load_rom", instr |-> NoValue, arg |-> NoValue, pre |-> Snapshot,
                prior |-> Prior]
    /\ UNCHANGED <<overflow_checks, wst, rst, steps, stkVars>>

\* self.pc = addr, up to the first fetch
eval_vector(addr) ==
    /\ phase \in {"new", "loaded", "returned"}
    /\ pc' = addr
    /\ phase' = "running"
    /\ last' = [op |-> "eval_vector", instr |-> NoValue, arg |-> addr, pre |-> Snapshot,
                prior |-> Prior]
    /\ UNCHANGED <<overflow_checks, mem, wst, rst, fault, rom, steps, loads, stkVars>>

\* the fields of Uxn after an iteration that ended in state r
Commit(r) ==
    /\ mem' = r.mem
    /\ pc' = r.pc
    /\ wst' = r.wst
    /\ rst' = r.rst
    /\ fault' = r.fault
    /\ phase' = IF r.fault # "none" THEN "panicked"
                ELSE IF r.ret THEN "returned" ELSE "running"

\* one iteration of the loop of eval_vector
Step ==
    /\ phase = "running"
    /\ steps < MaxSteps
    /\ Commit(Exec(Ctx(mem, pc, wst, rst)))
    /\ steps' = steps + 1
    /\ last' = [op |-> "instr", instr |-> MemRead(mem, pc), arg |-> NoValue, pre |-> Snapshot,
                prior |-> Prior]
    /\ UNCHANGED <<overflow_checks, rom, loads, stkVars>>

-----------------------------------------------------------------------------
(* The ROM images the host loads *)

\* The scenario ROMs of test_cpu_opcodes, each closed by BRK
ScenarioRoms ==
    << <<128, 18, 0>>,                      \* LIT 12
       <<160, 18, 52, 24, 0>>,              \* LIT2 1234 ADD
       <<128, 16, 6, 0>>,                   \* LIT 10 DUP
       <<160, 18, 52, 4, 0>>,               \* LIT2 1234 SWP
       <<160, 18, 52, 152, 0>>,             \* LIT2 1234 ADDk
       <<128, 2, 12, 128, 18, 128, 52, 0>>  \* LIT 02 JMP LIT 12 LIT 34
    >>

ScenarioWst ==
    << <<18>>, <<70>>, <<16, 16>>, <<52, 18>>, <<18, 52, 70>>, <<52>> >>

\* Operand bytes a..h for the ROMs below: f is the top byte and e f the top short
Operands ==
    { <<18, 52, 86, 120, 18, 52, 154, 188>>,   \* plain values
      <<1, 2, 3, 4, 0, 0, 5, 0>>,              \* zero on top
      <<17, 34, 171, 205, 255, 255, 255, 255>>, \* 0xffff on top
      <<9, 1, 2, 1, 1, 0, 1, 0>>,              \* 0x0100 on top
      <<7, 24, 129, 240, 8, 129, 24, 255>> }   \* shift counts of 8 and more

\* the single instruction x on a fresh CPU
RomBare(x) == <<x>>

\* LIT2 a b  LIT2 c d  LIT2 e f  LIT2r g h  x
RomR(t, x) == <<160, t[1], t[2], 160, t[3], t[4], 160, t[5], t[6], 224, t[7], t[8], x>>

\* LIT2r g h  LIT2r a b  LIT2 c d  LIT2 e f  x
RomB(t, x) == <<224, t[7], t[8], 224, t[1], t[2], 160, t[3], t[4], 160, t[5], t[6], x>>

\* RomR(t, x) followed by the instruction y
RomPair(t, x, y) == RomR(t, x) \o <<y>>

\* LIT2 0101  LIT op  LIT2 fffe  STA  LIT2 fffe  JMP2: stores the instruction op at
\* 0xfffe and jumps to it, so that its immediate starts at 0xffff
RomEdge(op) == <<160, 1, 1, 128, op, 160, 255, 254, 21, 160, 255, 254, 44>>

\* sixteen LIT 2a, then LIT2 0100 JMP2: a loop over LIT
RomLoop ==
    [i \in 1..36 |-> IF i <= 32 THEN (IF i % 2 = 1 THEN 128 ELSE 42)
                     ELSE <<160, 1, 0, 44>>[i - 32]]

Roms ==
    {ScenarioRoms[i] : i \in 1..Len(ScenarioRoms)}
    \cup {RomBare(x) : x \in 0..255}
    \cup {RomR(t, x) : t \in Operands, x \in 0..255}
    \cup {RomB(t, x) : t \in Operands, x \in 0..255}
    \cup {RomPair(t, dup, dup - 4) : t \in Operands, dup \in {6, 38, 70, 102}}
    \cup {RomPair(t, 32, 1) : t \in Operands}
    \cup {RomEdge(op) : op \in {160, 32, 64, 96}}
    \cup {RomLoop}

EvalAddrs == {ROM_START, 65535}

-----------------------------------------------------------------------------
(* A Stack driven through its own interface, as test_stack drives it.  call *)
(* records the last call; kept and klog follow keep mode: the bytes held    *)
(* when it was enabled, the bytes pushed and the bytes popped while it was  *)
(* on, and the bytes popped after it was switched off again (up to the next *)
(* push).                                                                   *)

MaxDepth == 4
MaxOffset == 5

PushBytes == {18, 52, 86}
PushShorts == {4660, 255}

KlogOff == [mode |-> "off", pushed |-> <<>>, popped |-> <<>>, drained |-> <<>>]

\* the bytes a pop returned, in the order they left the stack
BytesOf(op, value) == IF op = "pop_short" THEN <<Lo(value), Hi(value)>> ELSE <<value>>

Alive == call.fault = "none"

Record(op, arg, r) ==
    /\ stk' = r.s
    /\ call' = [op |-> op, arg |-> arg, ret |-> r.value, fault |-> r.fault,
                pre |-> stk, post |-> r.s]

Pushed(bytes) ==
    IF klog.mode = "keep"
    THEN klog' = [klog EXCEPT !.pushed = @ \o bytes] /\ UNCHANGED kept
    ELSE klog' = KlogOff /\ kept' = <<>>

Popped(op, r) ==
    /\ klog' = IF r.fault # "none" THEN klog
               ELSE IF klog.mode = "keep"
                    THEN [klog EXCEPT !.popped = @ \o BytesOf(op, r.value)]
               ELSE IF klog.mode = "after"
                    THEN [klog EXCEPT !.drained = @ \o BytesOf(op, r.value)]
               ELSE klog
    /\ UNCHANGED kept

StackPushByte(byte) ==
    /\ Alive
    /\ Len(stk.data) < MaxDepth
    /\ stk.pop_offset < MaxOffset
    /\ Record("push_byte", byte, [s |-> push_byte(stk, byte), value |-> NoValue, fault |-> "none"])
    /\ Pushed(<<byte>>)

StackPushShort(short) ==
    /\ Alive
    /\ Len(stk.data) + 1 < MaxDepth
    /\ stk.pop_offset + 1 < MaxOffset
    /\ Record("push_short", short, [s |-> push_short(stk, short), value |-> NoValue, fault |-> "none"])
    /\ Pushed(<<Hi(short), Lo(short)>>)

StackPopByte ==
    /\ Alive
    /\ Record("pop_byte", NoValue, pop_byte(stk))
    /\ Popped("pop_byte", pop_byte(stk))

StackPopShort ==
    /\ Alive
    /\ Record("pop_short", NoValue, pop_short(stk))
    /\ Popped("pop_short", pop_short(stk))

StackSetKeepMode(mode) ==
    /\ Alive
    /\ Record("set_keep_mode", IF mode THEN 1 ELSE 0,
              [s |-> set_keep_mode(stk, mode), value |-> NoValue, fault |-> "none"])
    /\ IF mode
       THEN /\ kept' = stk.data
            /\ klog' = [KlogOff EXCEPT !.mode = "keep"]
       ELSE /\ klog' = IF klog.mode = "keep" THEN [klog EXCEPT !.mode = "after"] ELSE klog
            /\ UNCHANGED kept

StackCalls ==
    \/ \E byte \in PushBytes : StackPushByte(byte)
    \/ \E short \in PushShorts : StackPushShort(short)
    \/ StackPopByte
    \/ StackPopShort
    \/ \E mode \in BOOLEAN : StackSetKeepMode(mode)

NextStack == StackCalls /\ UNCHANGED <<overflow_checks, cpuVars, trace>>

\* the first MaxCalls calls of a Stack that stays in normal mode, recorded
MaxCalls == 5

NextTrace ==
    /\ Len(trace) < MaxCalls
    /\ \/ \E byte \in PushBytes : StackPushByte(byte)
       \/ \E short \in PushShorts : StackPushShort(short)
       \/ StackPopByte
       \/ StackPopShort
    /\ trace' = Append(trace, call')
    /\ UNCHANGED <<overflow_checks, cpuVars>>

StackInit ==
    /\ stk = StackNew
    /\ call = [op |-> "new", arg |-> NoValue, ret |-> NoValue, fault |-> "none",
               pre |-> StackNew, post |-> StackNew]
    /\ kept = <<>>
    /\ klog = KlogOff
    /\ trace = <<>>

Init ==
    /\ overflow_checks \in BOOLEAN
    /\ UxnNew
    /\ StackInit

\* stack_assert! of test_cpu_opcodes: a new CPU, one ROM, one vector
Next ==
    \/ \E bytes \in Roms : phase = "new" /\ load_rom(bytes)
    \/ \E addr \in EvalAddrs : phase \in {"new", "loaded"} /\ eval_vector(addr)
    \/ Step

Spec == Init /\ [][Next]_vars

\* A host that loads ROMs one after another, on a new CPU (test_load_rom) and on
\* one that has run
MaxLoads == 2

\* a ROM one byte longer than the memory behind 0x0100
RomTooLarge == [i \in 1..(MemSize - ROM_START + 1) |-> 0]

LoadRoms ==
    {ScenarioRoms[i] : i \in 1..Len(ScenarioRoms)}
    \cup {<<18, 52, 86, 120>>}
    \cup {RomB(t, 53) : t \in Operands}
    \cup {RomTooLarge}

NextLoad ==
    \/ \E bytes \in LoadRoms : loads < MaxLoads /\ load_rom(bytes)
    \/ \E addr \in EvalAddrs : phase = "loaded" /\ eval_vector(addr)
    \/ Step

SpecLoad == Init /\ [][NextLoad]_vars

SpecStack == Init /\ [][NextStack]_vars

SpecTrace == Init /\ [][NextTrace]_vars

\* either test: the CPU under its host, or the Stack alone
NextAny ==
    \/ call.op = "new" /\ Next
    \/ phase = "new" /\ NextStack

SpecAny == Init /\ [][NextAny]_vars

-----------------------------------------------------------------------------
(* Properties of eval_vector *)

IsPrefix(p, q) == Len(p) <= Len(q) /\ SubSeq(q, 1, Len(p)) = p

\* an instruction has just completed: eval_vector neither returned nor panicked in it
Completed == last.op = "instr" /\ phase = "running"

OpOf(instr) == instr % 32
OP_JSR == 14
OP_STH == 15
OP_DEI == 22
OP_DEO == 23

\* C1: the return-mode swap is scoped to one instruction.  An instruction with
\* bit 6 set works on the return stack, so when it has completed the working
\* stack is again the stack it was before: it still begins with the bytes it
\* held, and holds exactly those bytes unless the instruction moves a value
\* across (STH, JSR, JSI).
C1_SwapScoped ==
    (Completed /\ Bit(last.instr, 64)) =>
        /\ IsPrefix(last.pre.wst.data, wst.data)
        /\ (OpOf(last.instr) \notin {OP_JSR, OP_STH} /\ last.instr # 96)
               => wst.data = last.pre.wst.data


\* The number of operand bytes each opcode 0x01..0x1f pops, w being the width
OperandBytes(op, sm) ==
    LET w == IF sm THEN 2 ELSE 1
    IN  CASE op \in {1, 2, 6, 12, 14, 15} -> w
          [] op \in {3, 4, 7, 8, 9, 10, 11, 24, 25, 26, 27, 28, 29, 30} -> 2 * w
          [] op = 5 -> 3 * w
          [] op \in {13, 31} -> w + 1
          [] op \in {16, 18} -> 1
          [] op \in {17, 19} -> 1 + w
          [] op = 20 -> 2
          [] op = 21 -> 2 + w
          [] OTHER -> 0

\* the last instruction is a keep-mode form of an opcode 0x01..0x1f other than
\* DEI and DEO, and the stack it pops from held all its operand bytes
KeepCase ==
    /\ last.op = "instr"
    /\ Bit(last.instr, 128)
    /\ OpOf(last.instr) \notin {0, OP_DEI, OP_DEO}
    /\ LET from == IF Bit(last.instr, 64) THEN last.pre.rst ELSE last.pre.wst
       IN  Len(from.data) >= OperandBytes(OpOf(last.instr), Bit(last.instr, 32))

\* C2: keep mode removes nothing.  After a keep-mode instruction the stack it
\* popped from holds what it held before followed by the bytes the k=0 form
\* of the instruction pushes on the same operands; PC, memory, the other stack
\* and the outcome (completed or panicked) are those of the k=0 form.
C2_KeepPreserves ==
    KeepCase =>
        LET instr == last.instr
            pre == last.pre
            from == IF Bit(instr, 64) THEN pre.rst ELSE pre.wst
            n == OperandBytes(OpOf(instr), Bit(instr, 32))
            k0 == ExecInstr(Ctx(pre.mem, pre.pc, pre.wst, pre.rst), instr - 128)
            pushed == IF k0.fault # "none" THEN <<>>
                      ELSE SubSeq(k0.wst.data, Len(from.data) - n + 1, Len(k0.wst.data))
        IN  /\ fault = k0.fault
            /\ wst.data = from.data \o pushed
            /\ rst.data = k0.rst.data
            /\ pc = k0.pc
            /\ mem = k0.mem

\* ADDk has run on 12 34 and left 12 34 46
C2_Witness ==
    /\ KeepCase
    /\ last.instr = 152
    /\ last.pre.wst.data = <<18, 52>>
    /\ wst.data = <<18, 52, 70>>
    /\ phase = "running"


\* C5: eval_vector(addr) sets PC to addr and returns exactly when the byte
\* fetched as an instruction is 0x00: fetching 0x00 returns and leaves both
\* stacks and memory as they were, nothing else returns (not the bytes
\* 0x20..0xe0 whose opcode field is 0), and each scenario ROM evaluated from
\* 0x0100 returns at the BRK behind its last instruction with the working stack
\* the scenario lists.
C5_ReturnsOnBrk ==
    /\ last.op = "eval_vector" => pc = last.arg
    /\ (last.op = "instr" /\ last.instr = 0) =>
           /\ phase = "returned"
           /\ wst = last.pre.wst /\ rst = last.pre.rst /\ mem = last.pre.mem
    /\ phase = "returned" => (last.op = "instr" /\ last.instr = 0)
    /\ \A i \in 1..Len(ScenarioRoms) :
           (rom = ScenarioRoms[i] /\ last.op = "instr"
               /\ last.pre.pc = ROM_START + Len(rom) - 1)
               => (phase = "returned" /\ wst.data = ScenarioWst[i])

\* C6: load_rom(bytes) writes bytes[i] to mem[0x0100 + i], leaves every other
\* byte of memory as it was (on a new CPU: zero), sets PC to 0x0100 and leaves
\* both stacks as they were.
C6_LoadRomFrame ==
    (last.op = "load_rom" /\ phase = "loaded") =>
        /\ \A i \in 1..Len(rom) : MemRead(mem, ROM_START + i - 1) = rom[i]
        /\ \A a \in DOMAIN mem \cup DOMAIN last.pre.mem :
               (a < ROM_START \/ a >= ROM_START + Len(rom))
                   => MemRead(mem, a) = MemRead(last.pre.mem, a)
        /\ DOMAIN last.pre.mem = {}
               => \A a \in DOMAIN mem : a >= ROM_START /\ a < ROM_START + Len(rom)
        /\ pc = ROM_START
        /\ wst = last.pre.wst
        /\ rst = last.pre.rst

\* a second ROM has been loaded over a CPU that ran a first one: the stacks
\* hold bytes, a byte stored behind the new ROM is non-zero and PC had moved
C6_Witness ==
    /\ last.op = "load_rom" /\ phase = "loaded" /\ loads = 2
    /\ rom = <<18, 52, 86, 120>>
    /\ Len(wst.data) > 0
    /\ last.pre.pc # ROM_START
    /\ \E a \in DOMAIN mem : a >= ROM_START + Len(rom)
    /\ \E i \in 1..Len(rom) : MemRead(last.pre.mem, ROM_START + i - 1) # rom[i]

\* the top short of a stack, NoValue when it holds fewer than two bytes
TopShort(s) ==
    IF Len(s.data) < 2 THEN NoValue
    ELSE FromBe(s.data[Len(s.data) - 1], s.data[Len(s.data)])

\* C7: no memory access faults; addresses wrap at 2^16.  No panic comes from
\* indexing memory or from advancing PC, and LDA2 at 0xffff completes with the
\* short made of mem[0xffff] (high) and mem[0x0000] (low) on the stack.
C7_MemoryWraps ==
    /\ fault # "mem index out of bounds"
    /\ (last.op = "instr" /\ last.instr = 52 /\ TopShort(last.pre.wst) = 65535) =>
           /\ phase = "running"
           /\ TopShort(wst) = FromBe(MemRead(last.pre.mem, 65535), MemRead(last.pre.mem, 0))

\* C8: the depth of each stack never exceeds 255
C8_DepthBounded == Len(wst.data) <= 255 /\ Len(rst.data) <= 255

RECURSIVE Zeros(_)
Zeros(n) == IF n = 0 THEN <<>> ELSE <<0>> \o Zeros(n - 1)

\* C10: DIV by zero is no fault.  When the divisor, the first operand popped,
\* is 0 the instruction completes, the operands are gone (kept in keep mode),
\* a zero of the width is on the stack and PC is behind the instruction.
C10_DivByZero ==
    LET instr == last.instr
        w == IF Bit(instr, 32) THEN 2 ELSE 1
        from == IF Bit(instr, 64) THEN last.pre.rst.data ELSE last.pre.wst.data
        n == Len(from)
    IN  (/\ last.op = "instr" /\ OpOf(instr) = 27
         /\ n >= 2 * w
         /\ SubSeq(from, n - w + 1, n) = Zeros(w)
         /\ last.pre.pc < 65535)
        => /\ phase = "running"
           /\ pc = last.pre.pc + 1
           /\ wst.data = (IF Bit(instr, 128) THEN from ELSE SubSeq(from, 1, n - 2 * w))
                             \o Zeros(w)

-----------------------------------------------------------------------------
(* Properties of the instructions.  The stack an instruction operates on is *)
(* the return stack when bit 6 of the instruction is set and the working    *)
(* stack otherwise; when the instruction has completed, self.wst is the     *)
(* stack it operated on.                                                    *)

Width(instr) == IF Bit(instr, 32) THEN 2 ELSE 1

\* the contents, before the instruction, of the stack it operates on
Operated(instr, pre) == IF Bit(instr, 64) THEN pre.rst.data ELSE pre.wst.data

\* the contents, before the instruction, of the stack it does not operate on
Other(instr, pre) == IF Bit(instr, 64) THEN pre.wst.data ELSE pre.rst.data

\* the value of width w found in bytes behind its top skip bytes
ValueAt(bytes, w, skip) ==
    LET n == Len(bytes) - skip
    IN  IF w = 2 THEN FromBe(bytes[n - 1], bytes[n]) ELSE bytes[n]

\* the bytes of a value of width w as they lie on a stack
BytesAt(v, w) == IF w = 2 THEN <<Hi(v), Lo(v)>> ELSE <<v>>

\* what an instruction leaves of bytes when it pops n operand bytes from them
Below(instr, bytes, n) ==
    IF Bit(instr, 128) THEN bytes ELSE SubSeq(bytes, 1, Len(bytes) - n)

\* a * b modulo 2^16, formed in two halves
WrapMul(a, b) == (a * Lo(b) + ((a * Hi(b)) % U8) * U8) % U16

\* the last step ran instruction instr of opcode op with n operand bytes on
\* the stack it operates on, away from the end of memory
Ran(ops, n) ==
    /\ last.op = "instr"
    /\ OpOf(last.instr) \in ops
    /\ last.instr \div 32 # 0 \/ OpOf(last.instr) # 0
    /\ Len(Operated(last.instr, last.pre)) >= n
    /\ last.pre.pc < 65532

\* C11: INC, ADD, SUB and MUL wrap and never fault.  With the operands on the
\* stack the instruction completes and pushes v+1, a+b, a-b or a*b modulo
\* 2^(8w), b being the operand popped first.
C11_ArithWraps ==
    LET instr == last.instr
        w == Width(instr)
        m == IF w = 2 THEN U16 ELSE U8
        from == Operated(instr, last.pre)
        b == ValueAt(from, w, 0)
        a == ValueAt(from, w, w)
    IN  /\ Ran({1}, w) =>
               /\ phase = "running"
               /\ wst.data = Below(instr, from, w) \o BytesAt((b + 1) % m, w)
        /\ Ran({24, 25, 26}, 2 * w) =>
               /\ phase = "running"
               /\ wst.data = Below(instr, from, 2 * w) \o
                      BytesAt(CASE OpOf(instr) = 24 -> (a + b) % m
                                [] OpOf(instr) = 25 -> (a - b + m) % m
                                [] OpOf(instr) = 26 -> WrapMul(a, b) % m, w)

\* C12: EQU, NEQ, GTH and LTH pop b, then a, at the width of the instruction
\* and push one byte at either width: 1 when a OP b holds and 0 otherwise.
C12_CompareByte ==
    LET instr == last.instr
        w == Width(instr)
        from == Operated(instr, last.pre)
        b == ValueAt(from, w, 0)
        a == ValueAt(from, w, w)
        holds == CASE OpOf(instr) = 8 -> a = b
                   [] OpOf(instr) = 9 -> a # b
                   [] OpOf(instr) = 10 -> a > b
                   [] OpOf(instr) = 11 -> a < b
    IN  Ran({8, 9, 10, 11}, 2 * w) =>
            /\ phase = "running"
            /\ wst.data = Below(instr, from, 2 * w) \o <<IF holds THEN 1 ELSE 0>>

\* where a jump to the popped value addr leads from P, the address behind the
\* opcode: to addr itself at width 2, by the signed byte addr at width 1
JumpTarget(P, addr, w) == IF w = 2 THEN addr ELSE (P + SignExt(addr)) % U16

\* C13: JMP at width 1 takes the popped byte as a signed offset from the
\* address behind the opcode, and at width 2 as the new PC; the jump of JCN
\* (condition byte non-zero) and of JSR follows the same rule.
C13_JumpSigned ==
    LET instr == last.instr
        w == Width(instr)
        from == Operated(instr, last.pre)
        addr == ValueAt(from, w, 0)
        P == last.pre.pc + 1
    IN  /\ Ran({12, OP_JSR}, w) =>
               (phase = "running" /\ pc = JumpTarget(P, addr, w))
        /\ (Ran({13}, w + 1) /\ ValueAt(from, 1, w) # 0) =>
               (phase = "running" /\ pc = JumpTarget(P, addr, w))

\* the big-endian short stored at addr
MemShort(m, addr) == FromBe(MemRead(m, addr), MemRead(m, addr + 1))

OP_JCI == 32
OP_JMI == 64
OP_JSI == 96

\* C14: JCI pops one byte from the working stack.  PC becomes P + 2 + imm
\* modulo 2^16 when the byte is not 0 and P + 2 when it is, P being the
\* address behind the opcode and imm the short stored there; the rest of the
\* working stack, the return stack and memory stay as they were.
C14_JciPopsByte ==
    LET from == last.pre.wst.data
        P == last.pre.pc + 1
    IN  (Ran({0}, 1) /\ last.instr = OP_JCI) =>
            /\ phase = "running"
            /\ wst.data = SubSeq(from, 1, Len(from) - 1)
            /\ pc = IF from[Len(from)] # 0
                    THEN (P + 2 + MemShort(last.pre.mem, P)) % U16
                    ELSE P + 2
            /\ rst = last.pre.rst
            /\ mem = last.pre.mem

\* C15: the immediate jumps leave the working stack alone.  JMI changes only
\* PC; JSI changes only PC and the return stack, which becomes what it held
\* followed by the short P + 2, high byte first; both set PC to P + 2 + imm
\* modulo 2^16, P being the address behind the opcode.
C15_ImmediateJumps ==
    LET P == last.pre.pc + 1
        target == (P + 2 + MemShort(last.pre.mem, P)) % U16
    IN  /\ (Ran({0}, 0) /\ last.instr = OP_JMI) =>
               /\ phase = "running"
               /\ pc = target
               /\ wst = last.pre.wst
               /\ rst = last.pre.rst
               /\ mem = last.pre.mem
        /\ (Ran({0}, 0) /\ last.instr = OP_JSI) =>
               /\ phase = "running"
               /\ pc = target
               /\ wst = last.pre.wst
               /\ rst.data = last.pre.rst.data \o BytesAt(P + 2, 2)
               /\ mem = last.pre.mem

\* C16: SFT pops a value v at the width of the instruction, then a shift byte
\* s, and pushes ((v >> (s & 0x0f)) << (s >> 4)) modulo 2^(8w) at that width,
\* for every v and s, without a fault.
C16_ShiftTruncates ==
    LET instr == last.instr
        w == Width(instr)
        m == IF w = 2 THEN U16 ELSE U8
        from == Operated(instr, last.pre)
        v == ValueAt(from, w, 0)
        s == ValueAt(from, 1, w)
    IN  Ran({31}, w + 1) =>
            /\ phase = "running"
            /\ wst.data = Below(instr, from, w + 1) \o
                   BytesAt(((v \div (2 ^ (s % 16))) * (2 ^ (s \div 16))) % m, w)

\* C17: DUP followed by POP is the identity.  When DUP and then POP, with the
\* same 2 and r bits and k=0, have run from a state whose operated stack held
\* at least w bytes, both stacks and memory are what they were before the
\* pair and PC is 2 further.
C17_DupPopIdentity ==
    LET dup == last.prior.instr
        before == last.prior.pre
    IN  (/\ last.op = "instr" /\ last.prior.op = "instr"
         /\ dup \in {6, 38, 70, 102}
         /\ last.instr = dup - 4
         /\ Len(Operated(dup, before)) >= Width(dup)
         /\ before.pc < 65532)
        => /\ phase = "running"
           /\ wst = before.wst
           /\ rst = before.rst
           /\ mem = before.mem
           /\ pc = before.pc + 2

\* the bytes 0x80, 0xa0, 0xc0 and 0xe0: LIT, LIT2, LITr, LIT2r
IsLit(instr) == OpOf(instr) = 0 /\ instr \div 32 >= 4

\* the last step ran an instruction of opcode 0x01..0x1f that takes no jump:
\* not JMP, not JSR, and JCN only over a condition byte that is 0
Sequential ==
    /\ last.op = "instr"
    /\ OpOf(last.instr) \notin {0, 12, OP_JSR}
    /\ OpOf(last.instr) = 13 =>
           LET from == Operated(last.instr, last.pre)
           IN  Len(from) > Width(last.instr) /\ ValueAt(from, 1, Width(last.instr)) = 0

\* C18: an instruction that takes no jump advances PC by 1 plus the length of
\* its immediate: by 1 for the opcodes 0x01..0x1f under every mode, by 2 for
\* LIT and LITr, by 3 for LIT2 and LIT2r, and by 3 for JCI over a condition
\* byte that is 0.
C18_PcAdvance ==
    LET instr == last.instr
        before == last.pre
    IN  (last.op = "instr" /\ before.pc < 65532) =>
            /\ Sequential => pc = before.pc + 1
            /\ IsLit(instr) => pc = before.pc + 1 + Width(instr)
            /\ (/\ instr = OP_JCI
                /\ Len(before.wst.data) > 0
                /\ before.wst.data[Len(before.wst.data)] = 0) => pc = before.pc + 3

\* C19: keep mode is off at every fetch.  Whenever eval_vector is about to
\* fetch an instruction, and when it has returned on BRK, keep_mode is false
\* on the working stack and on the return stack.
C19_KeepModeOffAtFetch ==
    phase \in {"running", "returned"} => (~wst.keep_mode /\ ~rst.keep_mode)

\* ADD2kr has completed on the return stack and the next fetch is due
C19_Witness ==
    /\ KeepCase
    /\ last.instr = 248
    /\ phase = "running"
    /\ Len(wst.data) = Len(last.pre.rst.data) + 2
    /\ ~wst.keep_mode /\ ~rst.keep_mode

-----------------------------------------------------------------------------
(* Properties of the Stack *)

\* the top n bytes of a sequence, top first
TopDown(bytes, n) == [i \in 1..n |-> bytes[Len(bytes) + 1 - i]]

\* C3: keep mode is non-destructive.  While keep mode is on the stack holds the
\* bytes it held when the mode was enabled, followed by the bytes pushed
\* since, and the pops have returned the bytes held before, from the top
\* downward; once it is off again, ordinary pops return the bytes pushed in
\* keep mode and then the original bytes, last in first out (as long as no
\* call has panicked).
C3_KeepNonDestructive ==
    /\ klog.mode = "keep" =>
           /\ stk.keep_mode
           /\ stk.data = kept \o klog.pushed
           /\ Len(klog.popped) <= Len(kept)
           /\ klog.popped = TopDown(kept, Len(klog.popped))
    /\ (klog.mode = "after" /\ Alive) =>
           LET all == kept \o klog.pushed
           IN  /\ ~stk.keep_mode
               /\ Len(klog.drained) <= Len(all)
               /\ klog.drained = TopDown(all, Len(klog.drained))
               /\ stk.data = SubSeq(all, 1, Len(all) - Len(klog.drained))

\* the keep-mode run of test_stack: 12 34 held, 56 pushed in keep mode, 34 and 12
\* popped in keep mode, then 56, 34 and 12 popped in normal mode
C3_Witness ==
    /\ klog.mode = "after"
    /\ kept = <<18, 52>>
    /\ klog.pushed = <<86>>
    /\ klog.popped = <<52, 18>>
    /\ klog.drained = <<86, 52, 18>>
    /\ call.op = "pop_short" /\ call.ret = 4660

\* calls i..j of the trace are all op
Run(i, j, op) == \A k \in i..j : trace[k].op = op

\* C4: round trips in normal mode.  Bytes pushed with push_byte come back from
\* pop_byte in reverse order and leave the stack as it was; push_short(s) then
\* pop_short() yields s; push_short(s) then two pop_byte() yield the low byte,
\* then the high byte; push_byte(hi), push_byte(lo) then pop_short() yields
\* (hi << 8) | lo.
C4_RoundTrip ==
    \A i \in 1..Len(trace) :
        /\ \A n \in 1..(MaxCalls \div 2) :
               (i + 2 * n - 1 <= Len(trace)
                   /\ Run(i, i + n - 1, "push_byte")
                   /\ Run(i + n, i + 2 * n - 1, "pop_byte"))
               => /\ \A j \in 0..(n - 1) :
                         /\ trace[i + n + j].fault = "none"
                         /\ trace[i + n + j].ret = trace[i + n - 1 - j].arg
                  /\ trace[i + 2 * n - 1].post.data = trace[i].pre.data
        /\ (i + 1 <= Len(trace) /\ trace[i].op = "push_short" /\ trace[i + 1].op = "pop_short")
               => /\ trace[i + 1].fault = "none"
                  /\ trace[i + 1].ret = trace[i].arg
                  /\ trace[i + 1].post.data = trace[i].pre.data
        /\ (i + 2 <= Len(trace) /\ trace[i].op = "push_short" /\ Run(i + 1, i + 2, "pop_byte"))
               => /\ trace[i + 1].ret = trace[i].arg % 256
                  /\ trace[i + 2].ret = trace[i].arg \div 256
                  /\ trace[i + 2].post.data = trace[i].pre.data
        /\ (i + 2 <= Len(trace) /\ Run(i, i + 1, "push_byte") /\ trace[i + 2].op = "pop_short")
               => /\ trace[i + 2].ret = trace[i].arg * 256 + trace[i + 1].arg
                  /\ trace[i + 2].post.data = trace[i].pre.data

\* over a stack holding 56: push_short(1234), pop_byte() = 34, pop_byte() = 12,
\* pop_byte() = 56
C4_Witness ==
    /\ Len(trace) = 5
    /\ trace[1].op = "push_byte" /\ trace[1].arg = 86
    /\ trace[2].op = "push_short" /\ trace[2].arg = 4660
    /\ trace[3].op = "pop_byte" /\ trace[3].ret = 52
    /\ trace[4].op = "pop_byte" /\ trace[4].ret = 18
    /\ trace[5].op = "pop_byte" /\ trace[5].ret = 86
    /\ stk.data = <<>>

\* the panics of a pop that finds no byte
UnderflowPanics ==
    {"Stack underflow", "attempt to subtract with overflow", "data index out of bounds"}

\* the bytes a pop can still reach on Stack s
Reachable(s) == IF s.keep_mode THEN Len(s.data) - s.pop_offset ELSE Len(s.data)

C20_OffsetZeroWhenOff ==
    /\ ~stk.keep_mode => stk.pop_offset = 0
    /\ phase # "panicked" =>
           /\ ~wst.keep_mode => wst.pop_offset = 0
           /\ ~rst.keep_mode => rst.pop_offset = 0

=============================================================================
